---- MODULE Spec2Model ----
(***************************************************************************)
(* The rag2f plugin template: the two repository-initialisation scripts     *)
(* (scripts/init_plugin.py and scripts/init-plugin.py) and the plugin-id    *)
(* context holder (src/rag2f_plugin_template/plugin_context.py).            *)
(*                                                                         *)
(* Text is modelled by TLA+ strings, one character per byte (ASCII).  TLA+  *)
(* strings cannot hold the bytes 0x00 and 0xFF, so two characters that      *)
(* occur nowhere else in the model stand for them: NUL and BADBYTE.         *)
(* An optional value (None in Python) is the empty tuple, a supplied one    *)
(* the one-element tuple <<v>>.                                            *)
(***************************************************************************)
EXTENDS Integers, Sequences, FiniteSets, TLC

\* ------------------------------------------------------------------------
\* Strings
\* ------------------------------------------------------------------------

NUL == "@"       \* stands for the byte 0x00
BADBYTE == "~"   \* stands for the byte 0xFF, which no UTF-8 text contains

None == <<>>
Some(v) == <<v>>

CharAt(s, i) == SubSeq(s, i, i)
Tail_(s, i) == SubSeq(s, i, Len(s))
StartsAt(s, i, t) == i + Len(t) - 1 <= Len(s) /\ SubSeq(s, i, i + Len(t) - 1) = t
StartsWith(s, t) == StartsAt(s, 1, t)

\* `t in s` of Python: t occurs in s as a substring.
Contains(s, t) == \E i \in 1..(Len(s) - Len(t) + 1) : StartsAt(s, i, t)

Min(S) == CHOOSE x \in S : \A y \in S : x <= y

\* str.replace(old, new) for a non-empty old: every non-overlapping
\* occurrence of old, found left to right, replaced by new; the inserted
\* text is not scanned again.  occ is the set of positions where old occurs.
RECURSIVE StrReplaceFrom(_, _, _, _, _)
StrReplaceFrom(s, occ, pos, old, new) ==
    LET rest == {i \in occ : i >= pos} IN
    IF rest = {} THEN Tail_(s, pos)
    ELSE SubSeq(s, pos, Min(rest) - 1) \o new
         \o StrReplaceFrom(s, occ, Min(rest) + Len(old), old, new)
StrReplace(s, old, new) ==
    StrReplaceFrom(s, {i \in 1..(Len(s) - Len(old) + 1) : StartsAt(s, i, old)},
                   1, old, new)

Lower == {"a","b","c","d","e","f","g","h","i","j","k","l","m",
          "n","o","p","q","r","s","t","u","v","w","x","y","z"}
Upper == {"A","B","C","D","E","F","G","H","I","J","K","L","M",
          "N","O","P","Q","R","S","T","U","V","W","X","Y","Z"}
Digit == {"0","1","2","3","4","5","6","7","8","9"}
\* \s of the re module, on ASCII text
Space == {" ", "\t", "\n", "\r", "\f"}

AllIn(s, cls) == \A i \in 1..Len(s) : CharAt(s, i) \in cls

\* ------------------------------------------------------------------------
\* The fragment of Python's re module the scripts use.  A pattern is a
\* sequence of items [t, s]:
\*   "bol"  ^ under re.MULTILINE        "eol"  $ under re.MULTILINE
\*   "lit"  the literal text s           "opt"  the literal text s, optional
\*   "star" a greedy c* for the character class named s
\* Matching backtracks as re does: a star gives back one character at a
\* time, an optional item is tried present first.
\* ------------------------------------------------------------------------

Bol == [t |-> "bol", s |-> ""]
Eol == [t |-> "eol", s |-> ""]
Lit(x) == [t |-> "lit", s |-> x]
Opt(x) == [t |-> "opt", s |-> x]
Star(c) == [t |-> "star", s |-> c]

InClass(c, cls) ==
    CASE cls = "space" -> c \in Space
      [] cls = "notquote" -> Len(c) = 1 /\ c # "\""

\* How many characters of s from pos on are in the class.
RunLen(s, pos, cls) ==
    LET out == {i \in pos..Len(s) : ~InClass(CharAt(s, i), cls)} IN
    (IF out = {} THEN Len(s) + 1 ELSE Min(out)) - pos

ReFail == [ok |-> FALSE, ends |-> <<>>]
ReCons(e, r) == IF r.ok THEN [ok |-> TRUE, ends |-> <<e>> \o r.ends] ELSE ReFail

\* Items k.. of the pattern matched at pos: ends[i] is the position after
\* the i-th of them.
RECURSIVE ReMatch(_, _, _, _)
RECURSIVE ReStar(_, _, _, _, _)
ReMatch(items, k, s, pos) ==
    IF k > Len(items) THEN [ok |-> TRUE, ends |-> <<>>]
    ELSE LET it == items[k] IN
         CASE it.t = "bol" ->
                IF pos = 1 \/ CharAt(s, pos - 1) = "\n"
                THEN ReCons(pos, ReMatch(items, k + 1, s, pos)) ELSE ReFail
           [] it.t = "eol" ->
                IF pos = Len(s) + 1 \/ CharAt(s, pos) = "\n"
                THEN ReCons(pos, ReMatch(items, k + 1, s, pos)) ELSE ReFail
           [] it.t = "lit" ->
                IF StartsAt(s, pos, it.s)
                THEN ReCons(pos + Len(it.s), ReMatch(items, k + 1, s, pos + Len(it.s)))
                ELSE ReFail
           [] it.t = "opt" ->
                LET with == IF StartsAt(s, pos, it.s)
                            THEN ReCons(pos + Len(it.s),
                                        ReMatch(items, k + 1, s, pos + Len(it.s)))
                            ELSE ReFail
                IN IF with.ok THEN with
                   ELSE ReCons(pos, ReMatch(items, k + 1, s, pos))
           [] it.t = "star" -> ReStar(items, k, s, pos, RunLen(s, pos, it.s))
ReStar(items, k, s, pos, j) ==
    LET r == ReCons(pos + j, ReMatch(items, k + 1, s, pos + j)) IN
    IF r.ok THEN r
    ELSE IF j = 0 THEN ReFail
    ELSE ReStar(items, k, s, pos, j - 1)

\* The text the items a..b of a match matched (a capture group).
ReGroup(s, m, a, b) ==
    SubSeq(s, IF a = 1 THEN m.start ELSE m.ends[a - 1], m.ends[b] - 1)
ReEnd(m) == m.ends[Len(m.ends)]

\* Pattern.finditer: the non-overlapping matches, leftmost first.  at is
\* the set of positions where the pattern matches at all.
RECURSIVE ReFindFrom(_, _, _, _)
ReFindFrom(items, s, at, pos) ==
    LET rest == {i \in at : i >= pos} IN
    IF rest = {} THEN <<>>
    ELSE LET m == [start |-> Min(rest), ends |-> ReMatch(items, 1, s, Min(rest)).ends]
         IN <<m>> \o ReFindFrom(items, s, at,
                                IF ReEnd(m) > m.start THEN ReEnd(m) ELSE m.start + 1)
ReFindAll(items, s) ==
    ReFindFrom(items, s, {i \in 1..(Len(s) + 1) : ReMatch(items, 1, s, i).ok}, 1)

\* The replacement template of re.sub (re._compile_template), expanded for
\* one match: \g<N> and \N are group N, \\ \n \t \r \f are the characters
\* they name, a backslash before any other ASCII letter or at the end is an
\* error ("bad escape"), a group that does not exist is an error, any other
\* backslash stays.  groups is the tuple of the match's groups.
TemplateEscapes == [n |-> "\n", t |-> "\t", r |-> "\r", f |-> "\f"]
DigitValue(c) == CHOOSE n \in 0..9 : ToString(n) = c
RECURSIVE ExpandTemplate(_, _)
ExpandTemplate(tpl, groups) ==
    LET escapes == {i \in 1..Len(tpl) : CharAt(tpl, i) = "\\"}
        at == Min(escapes)
        c == CharAt(tpl, at + 1)
        Ok(x, n) == LET r == ExpandTemplate(Tail_(tpl, at + n), groups) IN
                    [ok |-> r.ok, s |-> SubSeq(tpl, 1, at - 1) \o x \o r.s]
        Bad == [ok |-> FALSE, s |-> ""]
    IN IF escapes = {} THEN [ok |-> TRUE, s |-> tpl]
       ELSE IF at = Len(tpl) THEN Bad
       ELSE IF c = "g"
            THEN IF /\ at + 4 <= Len(tpl) /\ CharAt(tpl, at + 2) = "<"
                    /\ CharAt(tpl, at + 3) \in Digit /\ CharAt(tpl, at + 4) = ">"
                    /\ DigitValue(CharAt(tpl, at + 3)) \in 1..Len(groups)
                 THEN Ok(groups[DigitValue(CharAt(tpl, at + 3))], 5)
                 ELSE Bad
       ELSE IF c \in Digit
            THEN IF DigitValue(c) \in 1..Len(groups) THEN Ok(groups[DigitValue(c)], 2)
                 ELSE Bad
       ELSE IF c = "\\" THEN Ok("\\", 2)
       ELSE IF c \in DOMAIN TemplateEscapes THEN Ok(TemplateEscapes[c], 2)
       ELSE IF c \in Lower \cup Upper THEN Bad
       ELSE Ok("\\" \o c, 2)

\* The groups of the templates the scripts use are named by the items they
\* span: spans is a tuple of <<a, b>>.
ReGroups(s, m, spans) == [i \in 1..Len(spans) |-> ReGroup(s, m, spans[i][1], spans[i][2])]

\* re.sub(pattern, template, s, flags=re.MULTILINE): the template is
\* compiled before the search (an error in it is raised even when nothing
\* matches); every match is replaced by its expansion.
RECURSIVE ReSubFrom(_, _, _, _, _)
ReSubFrom(s, matches, i, spans, tpl) ==
    LET from == IF i = 1 THEN 1 ELSE ReEnd(matches[i - 1]) IN
    IF i > Len(matches) THEN Tail_(s, from)
    ELSE SubSeq(s, from, matches[i].start - 1)
         \o ExpandTemplate(tpl, ReGroups(s, matches[i], spans)).s
         \o ReSubFrom(s, matches, i + 1, spans, tpl)

TemplateCompiles(tpl, spans) ==
    ExpandTemplate(tpl, [i \in 1..Len(spans) |-> ""]).ok

ReSub(items, spans, tpl, s) == ReSubFrom(s, ReFindAll(items, s), 1, spans, tpl)

\* ------------------------------------------------------------------------
\* scripts/init_plugin.py
\* ------------------------------------------------------------------------

TEMPLATE_IMPORT_NAME == "rag2f_plugin_template"
TEMPLATE_PACKAGE_NAME == "rag2f-plugin-template"

\* _IMPORT_RE.fullmatch and _PACKAGE_RE.fullmatch
IMPORT_RE_fullmatch(s) ==
    /\ Len(s) >= 1
    /\ CharAt(s, 1) \in Lower \cup Upper \cup {"_"}
    /\ AllIn(Tail_(s, 2), Lower \cup Upper \cup Digit \cup {"_"})
PACKAGE_RE_fullmatch(s) ==
    /\ Len(s) >= 1
    /\ CharAt(s, 1) \in Lower \cup Digit
    /\ AllIn(Tail_(s, 2), Lower \cup Digit \cup {".", "_", "-"})

\* main, lines 152-158: the plan built from the parsed arguments.
\* `args.plugin_id or args.import_name`: None and "" both give import_name.
MakePlan(args) ==
    [import_name |-> args.import_name,
     package_name |-> args.package_name,
     plugin_id |-> IF args.plugin_id = None \/ args.plugin_id = Some("")
                   THEN args.import_name ELSE args.plugin_id[1],
     description |-> args.description,
     display_name |-> args.display_name]

\* _validate without its last check, that plugin_id equals import_name.
ValidateOk_NoIdCheck(plan) ==
    /\ IMPORT_RE_fullmatch(plan.import_name)
    /\ PACKAGE_RE_fullmatch(plan.package_name)
    /\ plan.plugin_id # ""

\* _validate: TRUE when it returns, FALSE when it raises SystemExit.
ValidateOk(plan) ==
    /\ IMPORT_RE_fullmatch(plan.import_name)
    /\ PACKAGE_RE_fullmatch(plan.package_name)
    /\ plan.plugin_id # ""
    /\ plan.plugin_id = plan.import_name

\* The entry-point pattern and template of main, lines 176-181.
EntryPointPattern(plan) ==
    <<Bol, Star("space"), Lit(plan.import_name), Star("space"), Lit("="),
      Star("space"), Lit("\"" \o plan.import_name \o ":get_plugin_path\""),
      Star("space"), Eol>>
EntryPointGroups == << <<2, 2>> >>
EntryPointTemplate(plan) ==
    "\\g<1>" \o plan.plugin_id \o " = \"" \o plan.import_name \o ":get_plugin_path\""

\* The description pattern and template of main, lines 190-195.
DescriptionPattern ==
    <<Bol, Star("space"), Lit("description"), Star("space"), Lit("="),
      Star("space"), Lit("\""), Star("notquote"), Lit("\""), Star("space"), Eol>>
DescriptionGroups == << <<2, 6>> >>
DescriptionTemplate(plan) == "\\g<1>\"" \o plan.description[1] \o "\""

\* The display-name pattern and template of main, lines 205-210.
NamePattern ==
    <<Bol, Star("space"), Lit("\"name\""), Star("space"), Lit(":"),
      Star("space"), Lit("\""), Star("notquote"), Lit("\""),
      Star("space"), Opt(","), Star("space"), Eol>>
NameGroups == << <<2, 6>>, <<10, 11>> >>
NameTemplate(plan) == "\\g<1>\"" \o plan.display_name[1] \o "\"\\g<2>"

\* --- the file system -----------------------------------------------------
\* files maps each regular file's path (relative to the repository root) to
\* its bytes; entries maps each name that exists under src/ to the
\* directory it resolves to (two names with one directory: a symlink).

Root == "/repo"
PYPROJECT == "pyproject.toml"
PLUGIN_JSON == "plugin.json"
\* Files whose read_bytes raises OSError (no read permission).
Unreadable == {"locked.txt"}

SrcPath(name) == "src/" \o name
Dirs(entries) == {"src", ".git"} \cup {SrcPath(n) : n \in DOMAIN entries}

\* Path.name and Path.suffix
LastIndexOf(s, c) ==
    LET at == {i \in 1..Len(s) : CharAt(s, i) = c} IN
    IF at = {} THEN 0 ELSE CHOOSE i \in at : \A j \in at : j <= i
PathName(path) == Tail_(path, LastIndexOf(path, "/") + 1)
PathSuffix(path) ==
    LET name == PathName(path)
        i == LastIndexOf(name, ".")
    IN IF 1 < i /\ i < Len(name) THEN Tail_(name, i) ELSE ""

TextSuffixes == {".py", ".toml", ".json", ".jsonc", ".yml", ".yaml", ".md",
                 ".txt", ".sh", ".cfg", ".in", ""}
TextNames == {"LICENSE", "NEXT_VERSION"}

\* _is_text_file
IsTextFile(path, dirs) ==
    IF path \in dirs THEN FALSE
    ELSE IF Contains(Root \o "/" \o path, "/.git/") THEN FALSE
    ELSE PathSuffix(path) \in TextSuffixes \/ PathName(path) \in TextNames

\* main, lines 163-166: the replacement table, in the dict's order.
Replacements(plan) ==
    << <<TEMPLATE_IMPORT_NAME, plan.import_name>>,
       <<TEMPLATE_PACKAGE_NAME, plan.package_name>> >>

\* _replace_in_files, lines 91-93
RECURSIVE ReplaceAll(_, _, _)
ReplaceAll(text, replacements, i) ==
    IF i > Len(replacements) THEN text
    ELSE ReplaceAll(StrReplace(text, replacements[i][1], replacements[i][2]),
                    replacements, i + 1)

\* _replace_in_files, lines 78-89: the paths whose text the pass looks at.
Decodes(bytes) == ~Contains(bytes, BADBYTE)
IsCandidate(files, dirs, path) ==
    /\ IsTextFile(path, dirs)
    /\ path \notin Unreadable
    /\ ~Contains(files[path], NUL)
    /\ Decodes(files[path])

\* _replace_in_files: the changed paths and the files after the pass.  The
\* list is kept as a set: rglob's order is the directory order of the file
\* system, each path is yielded once, and main reports set(changed).
ReplaceInFiles(files, dirs, replacements, dry_run) ==
    LET changed == {p \in DOMAIN files :
                      /\ IsCandidate(files, dirs, p)
                      /\ ReplaceAll(files[p], replacements, 1) # files[p]}
    IN [changed |-> changed,
        files |-> IF dry_run THEN files
                  ELSE [p \in DOMAIN files |->
                          IF p \in changed
                          THEN ReplaceAll(files[p], replacements, 1)
                          ELSE files[p]]]

\* Path.resolve of a name under src/: the directory an existing name leads
\* to, the path itself for a name that does not exist.
Resolve(entries, name) ==
    IF name \in DOMAIN entries THEN <<"dir", entries[name]>> ELSE <<"path", name>>

\* Path.rename(old_dir, new_dir): the name changes and with it the path of
\* every file below it.
MovedPath(path, old, new) ==
    IF StartsWith(path, SrcPath(old) \o "/")
    THEN SrcPath(new) \o Tail_(path, Len(SrcPath(old)) + 1)
    ELSE path
RenameDir(files, old, new) ==
    [q \in {MovedPath(p, old, new) : p \in DOMAIN files} |->
        files[CHOOSE p \in DOMAIN files : MovedPath(p, old, new) = q]]
RenameEntry(entries, old, new) ==
    [n \in (DOMAIN entries \ {old}) \cup {new} |->
        IF n = new THEN entries[old] ELSE entries[n]]

\* _rename_package_dir without the dry-run branch: it renames in both modes.
RenamePackageDir_AlwaysRenames(files, entries, plan, dry_run) ==
    LET old == TEMPLATE_IMPORT_NAME
        new == plan.import_name
        same == [ok |-> TRUE, files |-> files, entries |-> entries]
        fatal == [ok |-> FALSE, files |-> files, entries |-> entries]
    IN IF old \notin DOMAIN entries
       THEN (IF new \in DOMAIN entries THEN same ELSE fatal)
       ELSE IF Resolve(entries, old) = Resolve(entries, new) THEN same
       ELSE IF new \in DOMAIN entries THEN fatal
       ELSE [ok |-> TRUE,
             files |-> RenameDir(files, old, new),
             entries |-> RenameEntry(entries, old, new)]

\* _rename_package_dir: ok is FALSE when it raises SystemExit.
RenamePackageDir(files, entries, plan, dry_run) ==
    LET old == TEMPLATE_IMPORT_NAME
        new == plan.import_name
        same == [ok |-> TRUE, files |-> files, entries |-> entries]
        fatal == [ok |-> FALSE, files |-> files, entries |-> entries]
    IN IF old \notin DOMAIN entries
       THEN (IF new \in DOMAIN entries THEN same ELSE fatal)
       ELSE IF Resolve(entries, old) = Resolve(entries, new) THEN same
       ELSE IF new \in DOMAIN entries THEN fatal
       ELSE IF dry_run THEN same
       ELSE [ok |-> TRUE,
             files |-> RenameDir(files, old, new),
             entries |-> RenameEntry(entries, old, new)]

\* The read-substitute-write block with changed.append moved under
\* `if not args.dry_run`: a dry-run no longer records the path.
PatchFile_RecordsOnlyWrites(files, changed, path, items, spans, tpl, dry_run) ==
    LET text == files[path]
        new_text == ReSub(items, spans, tpl, text)
    IN IF ~Decodes(text)
       THEN [raised |-> "UnicodeDecodeError", files |-> files, changed |-> changed]
       ELSE IF ~TemplateCompiles(tpl, spans)
       THEN [raised |-> "re.error", files |-> files, changed |-> changed]
       ELSE IF new_text = text \/ dry_run
       THEN [raised |-> "", files |-> files, changed |-> changed]
       ELSE [raised |-> "",
             files |-> [files EXCEPT ![path] = new_text],
             changed |-> changed \cup {path}]

\* One read-substitute-write block of main (lines 175-186, 189-200 and
\* 204-215) on the file at path: raised names the exception that leaves it.
PatchFile(files, changed, path, items, spans, tpl, dry_run) ==
    LET text == files[path]
        new_text == ReSub(items, spans, tpl, text)
    IN IF ~Decodes(text)
       THEN [raised |-> "UnicodeDecodeError", files |-> files, changed |-> changed]
       ELSE IF ~TemplateCompiles(tpl, spans)
       THEN [raised |-> "re.error", files |-> files, changed |-> changed]
       ELSE IF new_text = text
       THEN [raised |-> "", files |-> files, changed |-> changed]
       ELSE [raised |-> "",
             files |-> IF dry_run THEN files ELSE [files EXCEPT ![path] = new_text],
             changed |-> changed \cup {path}]

\* `if plan.description:` and `plan.display_name`: None and "" are falsy.
Truthy(opt) == opt # None /\ opt # Some("")

\* main, lines 173-200
PatchPyproject(files, changed, plan, dry_run) ==
    IF PYPROJECT \notin DOMAIN files
    THEN [raised |-> "", files |-> files, changed |-> changed]
    ELSE LET a == PatchFile(files, changed, PYPROJECT, EntryPointPattern(plan),
                            EntryPointGroups, EntryPointTemplate(plan), dry_run)
         IN IF a.raised # "" \/ ~Truthy(plan.description) THEN a
            ELSE PatchFile(a.files, a.changed, PYPROJECT, DescriptionPattern,
                           DescriptionGroups, DescriptionTemplate(plan), dry_run)

\* main, lines 202-215
PatchPluginJson(files, changed, plan, dry_run) ==
    IF PLUGIN_JSON \in DOMAIN files /\ Truthy(plan.display_name)
    THEN PatchFile(files, changed, PLUGIN_JSON, NamePattern, NameGroups,
                   NameTemplate(plan), dry_run)
    ELSE [raised |-> "", files |-> files, changed |-> changed]

\* ------------------------------------------------------------------------
\* State
\* ------------------------------------------------------------------------

VARIABLES
    args,         \* the parsed command line
    pc,           \* the statement of main that runs next
    files,        \* the regular files under the repository root
    entries,      \* the names under src/
    changed,      \* main's `changed`
    reported,     \* the paths main printed, None before the report
    exit_status,  \* the process's exit status, None while it runs
    raised,       \* the exception that ended the run, "" if none
    steps,        \* the steps of main executed so far (history)
    files0,       \* files at the start of the run (history)
    entries0,     \* entries at the start of the run (history)
    plugin,       \* init-plugin.py: (original, underscore, dash), None before
    environ,      \* init-plugin.py: the variables main put into os.environ
    ctx,          \* plugin_context: _current_plugin_id in each task's context
    alive,        \* plugin_context: the tasks and threads that are running
    written,      \* plugin_context: each task's own latest write (history)
    last          \* plugin_context: the latest call and its outcome (history)

vars == <<args, pc, files, entries, changed, reported, exit_status, raised,
          steps, files0, entries0, plugin, environ, ctx, alive, written,
          last>>

runVars == <<args, pc, files, entries, changed, reported, exit_status, raised,
             steps, files0, entries0, plugin, environ>>
ctxVars == <<ctx, alive, written, last>>

NoFiles == [p \in {} |-> ""]
RunIdle ==
    /\ args = None /\ pc = "idle" /\ files = NoFiles /\ entries = NoFiles
    /\ changed = {} /\ reported = None /\ exit_status = None /\ raised = ""
    /\ steps = <<>> /\ files0 = NoFiles /\ entries0 = NoFiles
    /\ plugin = None /\ environ = NoFiles
CtxIdle ==
    /\ ctx = NoFiles /\ alive = {} /\ written = NoFiles /\ last = None

\* ------------------------------------------------------------------------
\* scripts/init_plugin.py: the runs
\* ------------------------------------------------------------------------

\* The names on the command line: pairs the patterns accept (the template's
\* own names, names that contain a template name, a name that completes a
\* fragment of one) and pairs they reject.
ValidNamePairs ==
    { <<"rag2f_demo", "rag2f-demo">>,
      <<TEMPLATE_IMPORT_NAME, TEMPLATE_PACKAGE_NAME>>,
      <<"rag2f_plugin_template_v2", "rag2f-plugin-template-v2">>,
      <<"template", "rag2f_plugin_template">> }
NamePairs ==
    ValidNamePairs \cup
    { <<"2bad", "rag2f-demo">>, <<"rag2f_demo", "Bad-Name">>, <<"", "rag2f-demo">> }
PluginIds == {None, Some("other_id"), Some("")}
Descriptions == {None, Some("Demo"), Some("C:\\demo")}
DisplayNames == {None, Some("Demo Plugin")}

\* The texts of README.md: up to MaxChunks pieces, each a template name, a
\* fragment of one, plain text, a null byte or a byte that is not UTF-8.
MaxChunks == 2
Chunks ==
    { TEMPLATE_IMPORT_NAME, TEMPLATE_PACKAGE_NAME, "rag2f-plugin-", "x\n", NUL, BADBYTE }
RECURSIVE TextsOf(_)
TextsOf(n) ==
    IF n = 0 THEN {""}
    ELSE TextsOf(n - 1) \cup {t \o c : t \in TextsOf(n - 1), c \in Chunks}
ReadmeTexts == TextsOf(MaxChunks)
README == "# rag2f-plugin-template\nimport rag2f_plugin_template\n"

PyprojectTexts ==
    { "name = \"rag2f-plugin-template\"\ndescription = \"Template\"\n"
        \o "rag2f_plugin_template = \"rag2f_plugin_template:get_plugin_path\"\n",
      "rag2f_plugin_template=\"rag2f_plugin_template:get_plugin_path\" \n",
      "description = \"Demo\"\nrag2f_demo  =  \"rag2f_demo:get_plugin_path\"\n",
      "description = \"Template\"\n" \o NUL,
      "description = \"Template\"\n" \o BADBYTE }
PluginJsonTexts ==
    { "{\n  \"name\": \"Template\",\n  \"id\": \"rag2f_plugin_template\"\n}\n",
      "{\n  \"name\": \"Template\"\n}\n" \o NUL,
      "{\n  \"name\": \"Template\"\n}\n" \o BADBYTE }
PYPROJECT_TOML == CHOOSE t \in PyprojectTexts : StartsWith(t, "name")
PLUGIN_JSON_TEXT == CHOOSE t \in PluginJsonTexts : Contains(t, "\"id\"")

\* Files that are the same in every run: one inside .git, one whose suffix
\* is not on the list, one that cannot be read.
FixedFiles ==
    [p \in {".git/config", "logo.png", "locked.txt"} |-> "rag2f-plugin-template\n"]

\* f and g, two functions with disjoint domains, as one.
Merge(f, g) == [x \in DOMAIN f \cup DOMAIN g |-> IF x \in DOMAIN f THEN f[x] ELSE g[x]]
OptFile(path, opt) == IF opt = None THEN NoFiles ELSE [p \in {path} |-> opt[1]]
Opt_(S) == {None} \cup {Some(x) : x \in S}

\* The layouts of src/: neither directory, the template's, the new one,
\* both, and the new name as a symlink to the template's directory.
TemplateLayout == [n \in {TEMPLATE_IMPORT_NAME} |-> 1]
EntrySets(new) ==
    LET old == TEMPLATE_IMPORT_NAME IN
    { NoFiles, TemplateLayout, [n \in {new} |-> 2],
      [n \in {old, new} |-> IF n = old THEN 1 ELSE 2],
      [n \in {old, new} |-> 1] }
\* The module of each real directory under src/.
PackageFiles(es) ==
    LET real == {n \in DOMAIN es : n = TEMPLATE_IMPORT_NAME
                                   \/ \A m \in DOMAIN es \ {n} : es[m] # es[n]}
    IN [p \in {SrcPath(n) \o "/__init__.py" : n \in real} |->
          "import rag2f_plugin_template\n"]

\* One start of a run: a command line and a repository.
Scenario(n, i, d, y, r, readme, py, pj, es) ==
    [args |-> [import_name |-> n[1], package_name |-> n[2], plugin_id |-> i,
               description |-> d, display_name |-> y, dry_run |-> r],
     entries |-> es,
     files |-> Merge(Merge(Merge([p \in {"README.md"} |-> readme],
                                 OptFile(PYPROJECT, py)),
                           OptFile(PLUGIN_JSON, pj)),
                     Merge(FixedFiles, PackageFiles(es)))]

\* The runs explored: every README text under every pair of names; every
\* manifest and descriptor under every valid pair and every optional value;
\* every layout of src/ under every command line's names and plugin id.
TextScenarios ==
    { Scenario(n, None, Some("Demo"), Some("Demo Plugin"), r, t,
               Some(PYPROJECT_TOML), Some(PLUGIN_JSON_TEXT), TemplateLayout) :
        n \in NamePairs, r \in BOOLEAN, t \in ReadmeTexts }
PatchScenarios ==
    { Scenario(n, None, d, y, r, README, py, pj, TemplateLayout) :
        n \in ValidNamePairs, d \in Descriptions, y \in DisplayNames,
        r \in BOOLEAN, py \in Opt_(PyprojectTexts), pj \in Opt_(PluginJsonTexts) }
LayoutScenarios ==
    UNION { { Scenario(n, i, None, None, r, README, Some(PYPROJECT_TOML),
                       Some(PLUGIN_JSON_TEXT), es) :
                i \in PluginIds \cup {Some(n[1])}, r \in BOOLEAN,
                es \in EntrySets(n[1]) } :
            n \in NamePairs }
Scenarios == TextScenarios \cup PatchScenarios \cup LayoutScenarios

Init ==
    /\ \E sc \in Scenarios :
         args = sc.args /\ entries = sc.entries /\ files = sc.files
    /\ pc = "validate"
    /\ changed = {} /\ reported = None /\ exit_status = None /\ raised = ""
    /\ steps = <<>>
    /\ files0 = files /\ entries0 = entries
    /\ plugin = None /\ environ = NoFiles
    /\ CtxIdle

Plan == MakePlan(args)

Exit(status, exc) ==
    /\ pc' = "exited" /\ exit_status' = Some(status) /\ raised' = exc

\* main, lines 151-159
Validate ==
    /\ pc = "validate"
    /\ steps' = Append(steps, "validate")
    /\ IF ValidateOk(Plan)
       THEN pc' = "replace" /\ UNCHANGED <<exit_status, raised>>
       ELSE Exit(1, "SystemExit")
    /\ UNCHANGED <<args, files, entries, changed, reported, files0, entries0,
                   plugin, environ>>
    /\ UNCHANGED ctxVars

\* main, line 169
Substitute ==
    /\ pc = "replace"
    /\ steps' = Append(steps, "replace")
    /\ LET r == ReplaceInFiles(files, Dirs(entries), Replacements(Plan), args.dry_run)
       IN files' = r.files /\ changed' = r.changed
    /\ pc' = "rename"
    /\ UNCHANGED <<args, entries, reported, exit_status, raised, files0, entries0,
                   plugin, environ>>
    /\ UNCHANGED ctxVars

\* main, line 170
Rename ==
    /\ pc = "rename"
    /\ steps' = Append(steps, "rename")
    /\ LET r == RenamePackageDir(files, entries, Plan, args.dry_run)
       IN /\ files' = r.files /\ entries' = r.entries
          /\ IF r.ok THEN pc' = "pyproject" /\ UNCHANGED <<exit_status, raised>>
             ELSE Exit(1, "SystemExit")
    /\ UNCHANGED <<args, changed, reported, files0, entries0, plugin, environ>>
    /\ UNCHANGED ctxVars

\* main, lines 173-200
Pyproject ==
    /\ pc = "pyproject"
    /\ steps' = Append(steps, "pyproject")
    /\ LET r == PatchPyproject(files, changed, Plan, args.dry_run)
       IN /\ files' = r.files /\ changed' = r.changed
          /\ IF r.raised = "" THEN pc' = "plugin_json" /\ UNCHANGED <<exit_status, raised>>
             ELSE Exit(1, r.raised)
    /\ UNCHANGED <<args, entries, reported, files0, entries0, plugin, environ>>
    /\ UNCHANGED ctxVars

\* main, lines 202-215
PluginJson ==
    /\ pc = "plugin_json"
    /\ steps' = Append(steps, "plugin_json")
    /\ LET r == PatchPluginJson(files, changed, Plan, args.dry_run)
       IN /\ files' = r.files /\ changed' = r.changed
          /\ IF r.raised = "" THEN pc' = "report" /\ UNCHANGED <<exit_status, raised>>
             ELSE Exit(1, r.raised)
    /\ UNCHANGED <<args, entries, reported, files0, entries0, plugin, environ>>
    /\ UNCHANGED ctxVars

\* main, lines 217-223
Report ==
    /\ pc = "report"
    /\ steps' = Append(steps, "report")
    /\ reported' = Some(changed)
    /\ Exit(0, "")
    /\ UNCHANGED <<args, files, entries, changed, files0, entries0, plugin, environ>>
    /\ UNCHANGED ctxVars

Next == Validate \/ Substitute \/ Rename \/ Pyproject \/ PluginJson \/ Report

Spec == Init /\ [][Next]_vars

\* main, lines 169-223, as one function of the repository at the start:
\* what the run reports (None when it ends before the report), its exit
\* status and the repository it leaves.
FullRun(fs, es, plan, dry_run) ==
    LET a == ReplaceInFiles(fs, Dirs(es), Replacements(plan), dry_run)
        b == RenamePackageDir(a.files, es, plan, dry_run)
        c == PatchPyproject(b.files, a.changed, plan, dry_run)
        d == PatchPluginJson(c.files, c.changed, plan, dry_run)
    IN IF ~b.ok
       THEN [reported |-> None, exit_status |-> 1, files |-> b.files, entries |-> b.entries]
       ELSE IF c.raised # ""
       THEN [reported |-> None, exit_status |-> 1, files |-> c.files, entries |-> b.entries]
       ELSE IF d.raised # ""
       THEN [reported |-> None, exit_status |-> 1, files |-> d.files, entries |-> b.entries]
       ELSE [reported |-> Some(d.changed), exit_status |-> 0, files |-> d.files,
             entries |-> b.entries]

\* ------------------------------------------------------------------------
\* Properties of scripts/init_plugin.py
\* ------------------------------------------------------------------------

Exited == pc = "exited"
Completed == Exited /\ exit_status = Some(0)
Untouched == files = files0 /\ entries = entries0

\* The path at which a file of the start is found now: below the renamed
\* directory if the run has renamed it.
PathNow(p) ==
    IF p \in DOMAIN files THEN p
    ELSE MovedPath(p, TEMPLATE_IMPORT_NAME, Plan.import_name)

\* The plan is one that validation is to reject.
Rejected ==
    \/ ~IMPORT_RE_fullmatch(Plan.import_name)
    \/ ~PACKAGE_RE_fullmatch(Plan.package_name)
    \/ Plan.plugin_id = ""
    \/ Plan.plugin_id # Plan.import_name

\* C1: a rejected plan ends the run with a non-zero exit status after the
\* validation step alone, with no file written and no directory renamed,
\* in dry-run and real mode alike.
C1_RejectedBeforeMutation ==
    (Rejected /\ pc # "validate") =>
        /\ Exited /\ exit_status # None /\ exit_status[1] # 0
        /\ steps = <<"validate">>
        /\ Untouched /\ changed = {} /\ reported = None

\* A run given a plugin id other than the import name, in real mode, on a
\* repository whose files hold the template's names, has ended.
C1_Witness ==
    /\ Exited /\ exit_status = Some(1)
    /\ args.plugin_id = Some("other_id") /\ IMPORT_RE_fullmatch(args.import_name)
    /\ ~args.dry_run
    /\ Contains(files0["README.md"], TEMPLATE_IMPORT_NAME)

\* C2: a run that has ended reports what the run in the other mode (dry-run
\* for a real run, real for a dry-run) reports from the same start, and a
\* dry-run never changes a file or the layout of src/.
C2_DryRunReportsTheSame ==
    /\ args.dry_run => Untouched
    /\ (Exited /\ ~Rejected) =>
          reported = FullRun(files0, entries0, Plan, ~args.dry_run).reported

\* A dry-run has reported the manifest among several paths, from a start
\* from which the real run rewrites files and renames the directory.
C2_Witness ==
    /\ Completed /\ args.dry_run
    /\ PYPROJECT \in reported[1] /\ Cardinality(reported[1]) > 2
    /\ FullRun(files0, entries0, Plan, FALSE).files # files0
    /\ FullRun(files0, entries0, Plan, FALSE).entries # entries0

\* Every occurrence of either template name in text replaced by the plan's
\* import name or package name, the occurrences taken in the text as it was.
RECURSIVE ReplaceBothFrom(_, _, _, _, _)
ReplaceBothFrom(text, occI, occP, pos, plan) ==
    LET rest == {i \in occI \cup occP : i >= pos}
        i == Min(rest)
    IN IF rest = {} THEN Tail_(text, pos)
       ELSE SubSeq(text, pos, i - 1)
            \o (IF i \in occI THEN plan.import_name ELSE plan.package_name)
            \o ReplaceBothFrom(text, occI, occP, i + Len(TEMPLATE_IMPORT_NAME), plan)
ReplaceBoth(text, plan) ==
    ReplaceBothFrom(text,
                    {i \in 1..Len(text) : StartsAt(text, i, TEMPLATE_IMPORT_NAME)},
                    {i \in 1..Len(text) : StartsAt(text, i, TEMPLATE_PACKAGE_NAME)},
                    1, plan)

HoldsTemplateName(text) ==
    Contains(text, TEMPLATE_IMPORT_NAME) \/ Contains(text, TEMPLATE_PACKAGE_NAME)
IsBinary(bytes) == Contains(bytes, NUL) \/ Contains(bytes, BADBYTE)

\* C4: after a completed real run with new names, every readable text file
\* on the allow-list, outside .git, free of null bytes and valid UTF-8, that
\* held a template name holds the plan's name in place of every occurrence
\* and is in the reported list.  (The manifest and the descriptor, which
\* the patch steps rewrite afterwards, are left out of the comparison.)
C4_EveryOccurrenceReplaced ==
    ( /\ Completed /\ ~args.dry_run
      /\ Plan.import_name # TEMPLATE_IMPORT_NAME
      /\ Plan.package_name # TEMPLATE_PACKAGE_NAME ) =>
        \A p \in DOMAIN files0 \ {PYPROJECT, PLUGIN_JSON} :
            ( /\ IsTextFile(p, Dirs(entries0)) /\ p \notin Unreadable
              /\ ~IsBinary(files0[p]) /\ HoldsTemplateName(files0[p]) ) =>
                /\ files[PathNow(p)] = ReplaceBoth(files0[p], Plan)
                /\ p \in reported[1]

\* C5: a file that holds a null byte or is not valid UTF-8 has, in every
\* state of every run, the bytes it had at the start.
C5_BinaryNeverWritten ==
    \A p \in DOMAIN files0 : IsBinary(files0[p]) => files[PathNow(p)] = files0[p]

\* C6: the outcomes of the directory-rename step.
C6_Step ==
    LET old == TEMPLATE_IMPORT_NAME
        new == Plan.import_name
        oldE == old \in DOMAIN entries
        newE == new \in DOMAIN entries
        same == old = new \/ (oldE /\ newE /\ entries[old] = entries[new])
        noop == pc' = "pyproject" /\ exit_status' = None
                /\ files' = files /\ entries' = entries
        fatal == pc' = "exited" /\ exit_status' = Some(1)
                 /\ files' = files /\ entries' = entries
    IN pc = "rename" =>
         /\ (~oldE /\ newE) => noop
         /\ (~oldE /\ ~newE) => fatal
         /\ (oldE /\ newE /\ ~same) => fatal
         /\ (oldE /\ same) => noop
         /\ (oldE /\ ~newE /\ ~same /\ args.dry_run) => noop
         /\ (oldE /\ ~newE /\ ~same /\ ~args.dry_run) =>
              /\ pc' = "pyproject" /\ exit_status' = None
              /\ DOMAIN entries' = (DOMAIN entries \ {old}) \cup {new}
              /\ entries'[new] = entries[old]
              /\ \A p \in DOMAIN files : files'[MovedPath(p, old, new)] = files[p]
              /\ Cardinality(DOMAIN files') = Cardinality(DOMAIN files)
C6_RenameOutcomes == [][C6_Step]_vars

\* A real run has renamed the template's directory, and the module below
\* it is found below the new name.
C6_Witness ==
    /\ pc = "pyproject" /\ ~args.dry_run
    /\ TEMPLATE_IMPORT_NAME \in DOMAIN entries0
    /\ TEMPLATE_IMPORT_NAME \notin DOMAIN entries
    /\ SrcPath(Plan.import_name) \o "/__init__.py" \in DOMAIN files

\* The directory-rename preconditions hold at the start: the template's
\* directory or the new one exists, and not both as different directories.
RenameAllowed ==
    LET old == TEMPLATE_IMPORT_NAME
        new == Plan.import_name
    IN /\ old \in DOMAIN entries0 \/ new \in DOMAIN entries0
       /\ (old \in DOMAIN entries0 /\ new \in DOMAIN entries0) =>
             (old = new \/ entries0[old] = entries0[new])

AllSteps == <<"validate", "replace", "rename", "pyproject", "plugin_json", "report">>
IsPrefix(a, b) == Len(a) <= Len(b) /\ SubSeq(b, 1, Len(a)) = a

\* C10: the steps run in the pipeline's order, each at most once; a run
\* ends early only when validation rejects the plan or the rename
\* preconditions fail, and in every other run all six steps have run and
\* the exit status is 0.
C10_OnlyValidationAndRenameHalt ==
    /\ IsPrefix(steps, AllSteps)
    /\ (Exited /\ ~Rejected /\ RenameAllowed) =>
          steps = AllSteps /\ exit_status = Some(0)
    /\ (Exited /\ Rejected) => steps = <<"validate">>
    /\ (Exited /\ ~Rejected /\ ~RenameAllowed) =>
          steps = SubSeq(AllSteps, 1, 3) /\ exit_status = Some(1)

\* ------------------------------------------------------------------------
\* scripts/init-plugin.py
\* ------------------------------------------------------------------------

\* str.strip(): the text without its leading and trailing whitespace.
Strip(s) ==
    LET ink == {i \in 1..Len(s) : CharAt(s, i) \notin Space} IN
    IF ink = {} THEN ""
    ELSE SubSeq(s, Min(ink), CHOOSE i \in ink : \A j \in ink : j <= i)

\* " ".join(s.split()): the words of s, one space between them.
RECURSIVE JoinWords(_)
JoinWords(s) ==
    LET t == Strip(s)
        gaps == {i \in 1..Len(t) : CharAt(t, i) \in Space}
    IN IF gaps = {} THEN t
       ELSE SubSeq(t, 1, Min(gaps) - 1) \o " " \o JoinWords(Tail_(t, Min(gaps)))

\* str.lower() on ASCII text
UpperLetters == "ABCDEFGHIJKLMNOPQRSTUVWXYZ"
LowerLetters == "abcdefghijklmnopqrstuvwxyz"
LowerChar(c) ==
    IF c \in Upper
    THEN CharAt(LowerLetters, CHOOSE i \in 1..Len(UpperLetters) : CharAt(UpperLetters, i) = c)
    ELSE c
RECURSIVE ToLower(_)
ToLower(s) == IF s = "" THEN "" ELSE LowerChar(CharAt(s, 1)) \o ToLower(Tail_(s, 2))

\* normalize_plugin_name: ok is FALSE when it raises ValueError.
NormalizePluginName(plugin_raw) ==
    LET original == Strip(plugin_raw)
        normalized == JoinWords(original)
        cleaned == ToLower(JoinWords(StrReplace(StrReplace(normalized, "-", " "), "_", " ")))
    IN IF original = "" THEN [ok |-> FALSE, original |-> "", underscore |-> "", dash |-> ""]
       ELSE [ok |-> TRUE, original |-> original,
             underscore |-> StrReplace(cleaned, " ", "_"),
             dash |-> StrReplace(cleaned, " ", "-")]

\* iter_root_files and iter_github_files
IsRootFile(path) == ~Contains(path, "/")
IsGithubFile(path) == StartsWith(path, ".github/")

\* replace_in_file on every file of paths: a file that is not UTF-8 is
\* skipped, any other file that holds a template name is rewritten.
ReplaceInEach(fs, paths, plugin_snake, plugin_dash) ==
    [p \in DOMAIN fs |->
        IF p \in paths /\ Decodes(fs[p])
        THEN StrReplace(StrReplace(fs[p], "rag2f_plugin_template", plugin_snake),
                        "rag2f-plugin-template", plugin_dash)
        ELSE fs[p]]

\* Path.exists of src/<name>: src/"" is src itself.
SrcExists(es, name) == name = "" \/ name \in DOMAIN es

\* rename_src_dir: raised names the exception that leaves it.
RenameSrcDir(fs, es, plugin_snake) ==
    LET old == "rag2f_plugin_template" IN
    IF old \notin DOMAIN es THEN [raised |-> "", files |-> fs, entries |-> es]
    ELSE IF SrcExists(es, plugin_snake) /\ Resolve(es, old) # Resolve(es, plugin_snake)
    THEN [raised |-> "FileExistsError", files |-> fs, entries |-> es]
    ELSE [raised |-> "", files |-> RenameDir(fs, old, plugin_snake),
          entries |-> RenameEntry(es, old, plugin_snake)]

\* json.loads for the documents the descriptor is drawn from: an object
\* whose members are strings without escapes.  members is the tuple of
\* <<key, value>>; ok is FALSE when it raises JSONDecodeError.
JsonSpace == {" ", "\t", "\n", "\r"}
JsonSkip(s, pos) ==
    LET ink == {i \in pos..Len(s) : CharAt(s, i) \notin JsonSpace} IN
    IF ink = {} THEN Len(s) + 1 ELSE Min(ink)
JsonFail == [ok |-> FALSE, members |-> <<>>, next |-> 0]
\* A string from the quote at pos: its text and the position after it.
JsonString(s, pos) ==
    LET n == RunLen(s, pos + 1, "notquote") IN
    IF StartsAt(s, pos, "\"") /\ StartsAt(s, pos + 1 + n, "\"")
       /\ ~Contains(SubSeq(s, pos + 1, pos + n), "\\")
    THEN [ok |-> TRUE, text |-> SubSeq(s, pos + 1, pos + n), next |-> pos + n + 2]
    ELSE [ok |-> FALSE, text |-> "", next |-> 0]
RECURSIVE JsonMembers(_, _)
JsonMembers(s, pos) ==
    LET k == JsonString(s, JsonSkip(s, pos))
        colon == JsonSkip(s, k.next)
        v == JsonString(s, JsonSkip(s, colon + 1))
        after == JsonSkip(s, v.next)
        more == JsonMembers(s, after + 1)
    IN IF ~k.ok \/ ~StartsAt(s, colon, ":") THEN JsonFail
       ELSE IF ~v.ok THEN JsonFail
       ELSE IF StartsAt(s, after, "}")
            THEN [ok |-> TRUE, members |-> << <<k.text, v.text>> >>, next |-> after + 1]
       ELSE IF StartsAt(s, after, ",") /\ more.ok
            THEN [ok |-> TRUE, members |-> << <<k.text, v.text>> >> \o more.members,
                  next |-> more.next]
       ELSE JsonFail
JsonLoads(s) ==
    LET open == JsonSkip(s, 1)
        first == JsonSkip(s, open + 1)
        r == IF StartsAt(s, first, "}")
             THEN [ok |-> TRUE, members |-> <<>>, next |-> first + 1]
             ELSE JsonMembers(s, open + 1)
    IN IF StartsAt(s, open, "{") /\ r.ok /\ JsonSkip(s, r.next) = Len(s) + 1
       THEN r ELSE JsonFail

\* data["name"] = value: the member replaced where it stands, or added last.
JsonSet(members, key, value) ==
    IF \E i \in 1..Len(members) : members[i][1] = key
    THEN [i \in 1..Len(members) |->
            IF members[i][1] = key THEN <<key, value>> ELSE members[i]]
    ELSE Append(members, <<key, value>>)

\* json.dumps(data, indent=4, ensure_ascii=False) of an object of strings
JsonQuote(text) ==
    "\"" \o StrReplace(StrReplace(StrReplace(StrReplace(text, "\\", "\\\\"),
                                             "\"", "\\\""), "\n", "\\n"), "\t", "\\t")
         \o "\""
RECURSIVE JsonLines(_, _)
JsonLines(members, i) ==
    "    " \o JsonQuote(members[i][1]) \o ": " \o JsonQuote(members[i][2])
    \o (IF i = Len(members) THEN "\n" ELSE ",\n" \o JsonLines(members, i + 1))
JsonDumps(members) ==
    IF members = <<>> THEN "{}" ELSE "{\n" \o JsonLines(members, 1) \o "}"

\* update_plugin_json
UpdatePluginJson(fs, plugin_original) ==
    LET data == JsonLoads(fs[PLUGIN_JSON]) IN
    IF PLUGIN_JSON \notin DOMAIN fs THEN [raised |-> "FileNotFoundError", files |-> fs]
    ELSE IF ~Decodes(fs[PLUGIN_JSON]) THEN [raised |-> "UnicodeDecodeError", files |-> fs]
    ELSE IF ~data.ok THEN [raised |-> "JSONDecodeError", files |-> fs]
    ELSE [raised |-> "",
          files |-> [fs EXCEPT ![PLUGIN_JSON] =
                        JsonDumps(JsonSet(data.members, "name", plugin_original)) \o "\n"]]

\* remove_pre_commit_hook
HOOK == ".git/hooks/pre-commit"
RemovePreCommitHook(fs) == [p \in DOMAIN fs \ {HOOK} |-> fs[p]]

\* ------------------------------------------------------------------------
\* scripts/init-plugin.py: the runs
\* ------------------------------------------------------------------------

\* The names given with --name or typed at the prompt: up to MaxNameChunks
\* pieces, each a word, a space, a dash or an underscore.
MaxNameChunks == 3
NameChunks == {"My", "x", " ", "-", "_"}
RECURSIVE NamesOf(_)
NamesOf(n) ==
    IF n = 0 THEN {""}
    ELSE NamesOf(n - 1) \cup {t \o c : t \in NamesOf(n - 1), c \in NameChunks}
PluginNames == NamesOf(MaxNameChunks)
TypedNames == {"", " ", "-", "My x"}

\* The repositories: files at the root (text, one with a null byte, one
\* that is not UTF-8), one under .github, one under docs, the descriptor
\* (well-formed, malformed or absent) and the hook (present or absent).
NameRepoFiles ==
    [p \in {"README.md", "data.bin", "logo.png", ".github/ci.yml", "docs/guide.md"} |->
        CASE p = "README.md" -> "# rag2f-plugin-template\nimport rag2f_plugin_template\n"
          [] p = "data.bin" -> "rag2f_plugin_template" \o NUL
          [] p = "logo.png" -> "rag2f-plugin-template" \o BADBYTE
          [] p = ".github/ci.yml" -> "run: pytest src/rag2f_plugin_template\n"
          [] OTHER -> "pip install rag2f-plugin-template\n"]
NameJsonTexts == {"{\n  \"name\": \"Template\",\n  \"version\": \"0.1.0\"\n}\n", "{\"name\": }"}
NameLayouts ==
    { NoFiles, TemplateLayout,
      [n \in {TEMPLATE_IMPORT_NAME, "my_x"} |-> IF n = "my_x" THEN 2 ELSE 1] }
NameScenario(name, typed, pj, hook, es) ==
    [args |-> [plugin_name |-> name, typed |-> typed],
     entries |-> es,
     files |-> Merge(Merge(NameRepoFiles, OptFile(PLUGIN_JSON, pj)),
                     Merge(IF hook THEN [p \in {HOOK} |-> "#!/bin/sh\n"] ELSE NoFiles,
                           PackageFiles(es)))]
NameScenarios ==
    { NameScenario(Some(n), "", Some(PLUGIN_JSON_TEXT), TRUE, es) :
        n \in PluginNames \ {""}, es \in NameLayouts }
    \cup
    { NameScenario(n, t, pj, hook, es) :
        n \in {None, Some(""), Some("My x")}, t \in TypedNames,
        pj \in Opt_(NameJsonTexts), hook \in BOOLEAN, es \in NameLayouts }

InitName ==
    /\ \E sc \in NameScenarios :
         args = sc.args /\ entries = sc.entries /\ files = sc.files
    /\ pc = "normalize"
    /\ changed = {} /\ reported = None /\ exit_status = None /\ raised = ""
    /\ steps = <<>>
    /\ files0 = files /\ entries0 = entries
    /\ plugin = None /\ environ = NoFiles
    /\ CtxIdle

\* main, line 118-120: the name given, or the line typed at the prompt.
PluginInput == IF Truthy(args.plugin_name) THEN args.plugin_name[1] ELSE args.typed

\* main, lines 118-130
NormalizeName ==
    /\ pc = "normalize"
    /\ steps' = Append(steps, "normalize")
    /\ LET n == NormalizePluginName(PluginInput) IN
       IF n.ok
       THEN /\ plugin' = Some([original |-> n.original, snake |-> n.underscore,
                               dash |-> n.dash])
            /\ environ' = [k \in {"PLUGIN_SNAKE", "PLUGIN_DASH", "PLUGIN_ORIGINAL"} |->
                             CASE k = "PLUGIN_SNAKE" -> n.underscore
                               [] k = "PLUGIN_DASH" -> n.dash
                               [] OTHER -> n.original]
            /\ pc' = "replace_root"
            /\ UNCHANGED <<exit_status, raised>>
       ELSE /\ Exit(1, "")
            /\ UNCHANGED <<plugin, environ>>
    /\ UNCHANGED <<args, files, entries, changed, reported, files0, entries0>>
    /\ UNCHANGED ctxVars

\* main, lines 132-134
ReplaceRoot ==
    /\ pc = "replace_root"
    /\ steps' = Append(steps, "replace_root")
    /\ files' = ReplaceInEach(files, {p \in DOMAIN files : IsRootFile(p)},
                              plugin[1].snake, plugin[1].dash)
    /\ pc' = "replace_github"
    /\ UNCHANGED <<args, entries, changed, reported, exit_status, raised, files0,
                   entries0, plugin, environ>>
    /\ UNCHANGED ctxVars

\* main, lines 136-138
ReplaceGithub ==
    /\ pc = "replace_github"
    /\ steps' = Append(steps, "replace_github")
    /\ files' = ReplaceInEach(files, {p \in DOMAIN files : IsGithubFile(p)},
                              plugin[1].snake, plugin[1].dash)
    /\ pc' = "rename_src"
    /\ UNCHANGED <<args, entries, changed, reported, exit_status, raised, files0,
                   entries0, plugin, environ>>
    /\ UNCHANGED ctxVars

\* main, line 140
RenameSrc ==
    /\ pc = "rename_src"
    /\ steps' = Append(steps, "rename_src")
    /\ LET r == RenameSrcDir(files, entries, plugin[1].snake) IN
       /\ files' = r.files /\ entries' = r.entries
       /\ IF r.raised = "" THEN pc' = "update_json" /\ UNCHANGED <<exit_status, raised>>
          ELSE Exit(1, r.raised)
    /\ UNCHANGED <<args, changed, reported, files0, entries0, plugin, environ>>
    /\ UNCHANGED ctxVars

\* main, line 141
UpdateJson ==
    /\ pc = "update_json"
    /\ steps' = Append(steps, "update_json")
    /\ LET r == UpdatePluginJson(files, plugin[1].original) IN
       /\ files' = r.files
       /\ IF r.raised = "" THEN pc' = "remove_hook" /\ UNCHANGED <<exit_status, raised>>
          ELSE Exit(1, r.raised)
    /\ UNCHANGED <<args, entries, changed, reported, files0, entries0, plugin, environ>>
    /\ UNCHANGED ctxVars

\* main, lines 142-147
RemoveHook ==
    /\ pc = "remove_hook"
    /\ steps' = Append(steps, "remove_hook")
    /\ files' = RemovePreCommitHook(files)
    /\ Exit(0, "")
    /\ UNCHANGED <<args, entries, changed, reported, files0, entries0, plugin, environ>>
    /\ UNCHANGED ctxVars

NextName ==
    NormalizeName \/ ReplaceRoot \/ ReplaceGithub \/ RenameSrc \/ UpdateJson \/ RemoveHook
SpecName == InitName /\ [][NextName]_vars

\* C7: a run of init-plugin.py whose normalized underscore and dash names
\* are empty returns exit status 1 and has replaced nothing, renamed no
\* directory, left plugin.json as it was and deleted no hook.
NormalizedEmpty ==
    LET n == NormalizePluginName(PluginInput) IN
    ~n.ok \/ (n.underscore = "" /\ n.dash = "")
C7_EmptyNameIsFatal ==
    (Exited /\ NormalizedEmpty) => (exit_status = Some(1) /\ Untouched)

\* ------------------------------------------------------------------------
\* scripts/init_plugin.py: _replace_in_files called twice
\* ------------------------------------------------------------------------

\* Every README text under every valid pair of names, not a dry run.
InitTwice ==
    /\ \E sc \in {x \in TextScenarios : ValidateOk(MakePlan(x.args)) /\ ~x.args.dry_run} :
         args = sc.args /\ entries = sc.entries /\ files = sc.files
    /\ pc = "first"
    /\ changed = {} /\ reported = None /\ exit_status = None /\ raised = ""
    /\ steps = <<>>
    /\ files0 = files /\ entries0 = entries
    /\ plugin = None /\ environ = NoFiles
    /\ CtxIdle

\* _replace_in_files(repo_root, replacements, dry_run=False) on the start
FirstPass ==
    /\ pc = "first"
    /\ LET r == ReplaceInFiles(files, Dirs(entries), Replacements(Plan), FALSE) IN
       files' = r.files /\ changed' = r.changed
    /\ pc' = "second"
    /\ steps' = Append(steps, "first")
    /\ UNCHANGED <<args, entries, reported, exit_status, raised, files0, entries0,
                   plugin, environ>>
    /\ UNCHANGED ctxVars

\* the same call again, on what the first call wrote
SecondPass ==
    /\ pc = "second"
    /\ LET r == ReplaceInFiles(files, Dirs(entries), Replacements(Plan), FALSE) IN
       files' = r.files /\ changed' = r.changed
    /\ pc' = "twice"
    /\ steps' = Append(steps, "second")
    /\ UNCHANGED <<args, entries, reported, exit_status, raised, files0, entries0,
                   plugin, environ>>
    /\ UNCHANGED ctxVars

NextTwice == FirstPass \/ SecondPass
SpecTwice == InitTwice /\ [][NextTwice]_vars

\* C3: the second pass of _replace_in_files with the same table, on what a
\* first pass that was not a dry run produced, changes no file: its list of
\* changed files is empty.
C3_SecondPassChangesNothing == pc = "twice" => changed = {}

\* ------------------------------------------------------------------------
\* src/rag2f_plugin_template/plugin_context.py
\* ------------------------------------------------------------------------

\* A context maps each running task (or thread) to the value its own
\* context holds for _current_plugin_id: None, the default, or Some(id).

\* set_plugin_id on a module-level global in place of the ContextVar
SetPluginId_Global(c, t, plugin_id) == [u \in DOMAIN c |-> Some(plugin_id)]

\* set_plugin_id, called in task t
SetPluginId(c, t, plugin_id) == [c EXCEPT ![t] = Some(plugin_id)]

\* reset_plugin_id, called in task t
ResetPluginId(c, t) == [c EXCEPT ![t] = None]

\* get_plugin_id with `if not pid` in place of `if pid is None`
GetPluginId_Falsy(c, t, rag2f) ==
    LET pid == c[t] IN
    IF pid # None /\ pid # <<"">>
    THEN [result |-> <<"returned", pid[1]>>, ctx |-> c, called |-> FALSE]
    ELSE IF rag2f = None
    THEN [result |-> <<"raised", "RuntimeError">>, ctx |-> c, called |-> FALSE]
    ELSE IF rag2f[1][1] = "raises"
    THEN [result |-> <<"raised", "RuntimeError">>, ctx |-> c, called |-> TRUE]
    ELSE [result |-> <<"returned", rag2f[1][2]>>,
          ctx |-> [c EXCEPT ![t] = Some(rag2f[1][2])], called |-> TRUE]

\* get_plugin_id(rag2f), called in task t.  rag2f is None, or Some of what
\* rag2f.morpheus.self_plugin_id() does when called: <<"returns", id>> or
\* <<"raises">>.  called tells whether it was called.
Returned(v) == <<"returned", v>>
RuntimeError == <<"raised", "RuntimeError">>
GetPluginId(c, t, rag2f) ==
    LET pid == c[t] IN
    IF pid # None
    THEN [result |-> Returned(pid[1]), ctx |-> c, called |-> FALSE]
    ELSE IF rag2f = None
    THEN [result |-> RuntimeError, ctx |-> c, called |-> FALSE]
    ELSE IF rag2f[1][1] = "raises"
    THEN [result |-> RuntimeError, ctx |-> c, called |-> TRUE]
    ELSE [result |-> Returned(rag2f[1][2]),
          ctx |-> SetPluginId(c, t, rag2f[1][2]), called |-> TRUE]

\* The tasks and threads, the ids they store and the host objects they pass.
\* self_plugin_id() returns a str, as get_plugin_id's annotation has it, the
\* empty one included, or raises an Exception.
MaxTasks == 3
Tasks == 1..MaxTasks
PluginIdValues == {"", "a", "b"}
Rag2fs == {None, Some(<<"raises">>)} \cup {Some(<<"returns", v>>) : v \in PluginIdValues}

InitCtx ==
    /\ RunIdle
    /\ alive = {1}
    /\ ctx = [t \in {1} |-> None]
    /\ written = [t \in {1} |-> None]
    /\ last = None

Call(t, op, arg, before, result, called) ==
    Some([task |-> t, op |-> op, arg |-> arg, before |-> before,
          result |-> result, called |-> called])

Set ==
    /\ \E t \in alive, v \in PluginIdValues :
         /\ ctx' = SetPluginId(ctx, t, v)
         /\ written' = [written EXCEPT ![t] = Some(v)]
         /\ last' = Call(t, "set", Some(v), written[t], None, FALSE)
    /\ UNCHANGED alive
    /\ UNCHANGED runVars

Reset ==
    /\ \E t \in alive :
         /\ ctx' = ResetPluginId(ctx, t)
         /\ written' = [written EXCEPT ![t] = None]
         /\ last' = Call(t, "reset", None, written[t], None, FALSE)
    /\ UNCHANGED alive
    /\ UNCHANGED runVars

Get ==
    /\ \E t \in alive, rag2f \in Rag2fs :
         LET r == GetPluginId(ctx, t, rag2f) IN
         /\ ctx' = r.ctx
         /\ written' = IF r.called /\ r.result # RuntimeError
                       THEN [written EXCEPT ![t] = Some(r.result[2])]
                       ELSE written
         /\ last' = Call(t, "get", rag2f, written[t], r.result, r.called)
    /\ UNCHANGED alive
    /\ UNCHANGED runVars

\* asyncio.create_task in task p: the new task runs in a copy of p's context.
StartTask ==
    /\ \E p \in alive, t \in Tasks \ alive :
         /\ alive' = alive \cup {t}
         /\ ctx' = [u \in alive' |-> IF u = t THEN ctx[p] ELSE ctx[u]]
         /\ written' = [u \in alive' |-> IF u = t THEN written[p] ELSE written[u]]
         /\ last' = Call(p, "create_task", Some(t), written[p], None, FALSE)
    /\ UNCHANGED runVars

\* threading.Thread.start in task p: the new thread runs in an empty context.
StartThread ==
    /\ \E p \in alive, t \in Tasks \ alive :
         /\ alive' = alive \cup {t}
         /\ ctx' = [u \in alive' |-> IF u = t THEN None ELSE ctx[u]]
         /\ written' = [u \in alive' |-> IF u = t THEN None ELSE written[u]]
         /\ last' = Call(p, "start_thread", Some(t), written[p], None, FALSE)
    /\ UNCHANGED runVars

\* A task or thread other than the main one ends; its context goes with it.
End ==
    /\ \E t \in alive \ {1} :
         /\ alive' = alive \ {t}
         /\ ctx' = [u \in alive' |-> ctx[u]]
         /\ written' = [u \in alive' |-> written[u]]
         /\ last' = Call(t, "end", None, written[t], None, FALSE)
    /\ UNCHANGED runVars

NextCtx == Set \/ Reset \/ Get \/ StartTask \/ StartThread \/ End
SpecCtx == InitCtx /\ [][NextCtx]_vars

\* What get_plugin_id() returns or raises in task t as things stand.
Observes(t) == GetPluginId(ctx, t, None).result
Expected(w) == IF w = None THEN RuntimeError ELSE Returned(w[1])

\* C8: under every interleaving of set_plugin_id, reset_plugin_id and
\* get_plugin_id by running tasks and threads, what get_plugin_id returns in
\* a task is that task's own latest write, whatever the other tasks wrote.
C8_TasksAreIsolated == \A t \in alive : Observes(t) = Expected(written[t])
C8_Witness ==
    /\ last # None /\ last[1].op \in {"set", "reset"}
    /\ \E u \in alive \ {last[1].task} :
         /\ written[u] # None /\ written[u] # written[last[1].task]
         /\ Observes(u) = Returned(written[u][1])

\* C9: in one context get_plugin_id returns the latest id set if no reset
\* followed it; with nothing stored it raises RuntimeError when rag2f is not
\* given, returns and stores what self_plugin_id() returns when it is, so
\* that the next get_plugin_id() returns it without a call of
\* self_plugin_id(), and raises RuntimeError with nothing stored when
\* self_plugin_id() raises.
C9_GetOutcomes ==
    (last # None /\ last[1].op = "get") =>
        LET c == last[1]
            now == GetPluginId(ctx, c.task, None)
        IN IF c.before # None
           THEN c.result = Returned(c.before[1]) /\ ~c.called /\ ctx[c.task] = c.before
           ELSE IF c.arg = None
           THEN c.result = RuntimeError /\ ~c.called /\ ctx[c.task] = None
           ELSE IF c.arg[1][1] = "raises"
           THEN c.result = RuntimeError /\ ctx[c.task] = None
           ELSE /\ c.result = Returned(c.arg[1][2])
                /\ now.result = c.result /\ ~now.called
C9_Witness ==
    /\ last # None /\ last[1].op = "get" /\ last[1].before = None
    /\ last[1].called /\ last[1].result = Returned("")
====
